---- MODULE Spec2Model ----
(***************************************************************************)
(* A model of the tetrs engine: the controller, the field, the block       *)
(* primitives, the SRS wallkick and the per-tick Engine::update() state    *)
(* machine.                                                                *)
(*                                                                         *)
(* Coordinates follow the source: x grows to the right, y grows downward,  *)
(* the origin is the upper-left corner of the field.  Field rows are kept  *)
(* as a sequence (row y is data[y+1], column x is data[y+1][x+1]).         *)
(***************************************************************************)
EXTENDS Integers, Sequences, FiniteSets, TLC

VARIABLES
    co,           \* Engine.co: the Controller, [active, time]
    rd,           \* Engine.rd: the randomizer, abstracted to the number of next() calls served
    fd,           \* Engine.fd: the Field
    bk,           \* Engine.bk: the active Block
    hd,           \* Engine.hd: Option<Id>, None when empty
    op,           \* Engine.op: EngineSettings
    st,           \* Engine.st: Statistics
    running,      \* Engine.running
    mspt,         \* Engine.mspt
    tick_count,   \* Engine.tick_count
    it,           \* Engine.it: EngineInternal
    status,       \* Engine.status
    last_status,  \* Engine.last_status
    calls,        \* observer: number of Engine::update() calls made so far
    locks,        \* observer: number of Field::freeze() calls made by the engine so far
    holds,        \* observer: number of do_hold() calls since the last piece spawn
    rests,        \* observer: consecutive Move ticks that ended with the piece in play locking
    since,        \* observer: update() calls begun since the last freeze
    panic,        \* observer: an update() was aborted by a Rust panic
    lg,           \* observer: what the last update() did (see NoLog)
    hs,           \* Engine.hs: the History, [history, snapshot, tick_count]
    bag,          \* a BagRandomizer, [lookahead, head, data]
    call,         \* observer: the last library call made directly, with its result
    acts,         \* observer: controller.active as seen by each update call so far
    out           \* observer: the pieces Randomizer::next() has returned so far

vars == <<co, rd, fd, bk, hd, op, st, running, mspt, tick_count, it, status,
          last_status, calls, locks, holds, rests, since, panic, lg, hs, bag, call, acts, out>>

\* The variables of the library components the engine's update() leaves alone.
lib_vars == <<hs, bag, call, acts, out>>

\* The variables of the engine other than its controller, field and block.
engine_vars == <<rd, hd, op, st, running, mspt, tick_count, it, status, last_status,
                 calls, locks, holds, rests, since, panic, lg>>

-----------------------------------------------------------------------------
(* Bounds of the exploration *)

\* Number of Engine::update() calls explored from construction.
MaxCalls == 5

-----------------------------------------------------------------------------
(* block.rs: piece identities and rotation data *)

None == "None"

\* Type::variants()
variants == <<"I", "T", "L", "J", "S", "Z", "O">>

\* The pieces the memoryless randomizer serves in the explored runs.
PieceIds == {"I", "T", "L"}

\* BLOCK_DATA[id][rotation]: the four (x, y) offsets of a piece.
BLOCK_DATA ==
    [I |-> << {<<0,1>>, <<1,1>>, <<2,1>>, <<3,1>>},
              {<<2,0>>, <<2,1>>, <<2,2>>, <<2,3>>},
              {<<0,2>>, <<1,2>>, <<2,2>>, <<3,2>>},
              {<<1,0>>, <<1,1>>, <<1,2>>, <<1,3>>} >>,
     T |-> << {<<0,1>>, <<1,0>>, <<1,1>>, <<2,1>>},
              {<<1,0>>, <<1,1>>, <<1,2>>, <<2,1>>},
              {<<0,1>>, <<1,1>>, <<1,2>>, <<2,1>>},
              {<<0,1>>, <<1,0>>, <<1,1>>, <<1,2>>} >>,
     L |-> << {<<0,1>>, <<1,1>>, <<2,0>>, <<2,1>>},
              {<<1,0>>, <<1,1>>, <<1,2>>, <<2,2>>},
              {<<0,1>>, <<0,2>>, <<1,1>>, <<2,1>>},
              {<<0,0>>, <<1,0>>, <<1,1>>, <<1,2>>} >>,
     J |-> << {<<0,0>>, <<0,1>>, <<1,1>>, <<2,1>>},
              {<<1,0>>, <<1,1>>, <<1,2>>, <<2,0>>},
              {<<0,1>>, <<1,1>>, <<2,1>>, <<2,2>>},
              {<<0,2>>, <<1,0>>, <<1,1>>, <<1,2>>} >>,
     S |-> << {<<0,1>>, <<1,0>>, <<1,1>>, <<2,0>>},
              {<<1,0>>, <<1,1>>, <<2,1>>, <<2,2>>},
              {<<0,2>>, <<1,1>>, <<1,2>>, <<2,1>>},
              {<<0,0>>, <<0,1>>, <<1,1>>, <<1,2>>} >>,
     Z |-> << {<<0,0>>, <<1,0>>, <<1,1>>, <<2,1>>},
              {<<1,1>>, <<1,2>>, <<2,0>>, <<2,1>>},
              {<<0,1>>, <<1,1>>, <<1,2>>, <<2,2>>},
              {<<0,1>>, <<0,2>>, <<1,0>>, <<1,1>>} >>,
     O |-> << {<<1,0>>, <<1,1>>, <<2,0>>, <<2,1>>},
              {<<1,0>>, <<1,1>>, <<2,0>>, <<2,1>>},
              {<<1,0>>, <<1,1>>, <<2,0>>, <<2,1>>},
              {<<1,0>>, <<1,1>>, <<2,0>>, <<2,1>>} >>]

\* Rotation: R0, R90, R180, R270 are 0, 1, 2, 3 (to_usize).
R0 == 0
R90 == 1
R180 == 2
R270 == 3

clockwise(r) == (r + 4 + 1) % 4

anticlockwise(r) == (r + 4 - 1) % 4

\* Block::data(id, r)
data(id, r) == BLOCK_DATA[id][r + 1]

SetMax(S) == CHOOSE m \in S : \A n \in S : n <= m

SetMin(S) == CHOOSE m \in S : \A n \in S : m <= n

\* Block::trailing: componentwise maximum of the offsets, folded from (0, 0).
trailing(b) ==
    << SetMax({0} \cup {d[1] : d \in data(b.id, b.r)}),
       SetMax({0} \cup {d[2] : d \in data(b.id, b.r)}) >>

\* Block::offset: componentwise minimum of the offsets, folded from (100, 100).
offset(id, r) ==
    << SetMin({100} \cup {d[1] : d \in data(id, r)}),
       SetMin({100} \cup {d[2] : d \in data(id, r)}) >>

\* Block::leading
leading(b) == offset(b.id, b.r)

-----------------------------------------------------------------------------
(* field.rs *)

EmptyRow(w) == [x \in 1..w |-> None]

\* Field::get((x, y)) (the caller keeps x, y in range)
get(f, x, y) == f.data[y + 1][x + 1]

\* Field::occupies((x, y)): its assertion fails for usize coordinates out of range.
occupies_fails(f, x, y) == ~(x < f.width /\ y < f.height)

\* Field::occupies((x, y)) when the assertion passed.
occupies(f, x, y) == f.data[y + 1][x + 1] # None

\* The absolute cells of a block.
Cells(b) == {<<b.x + d[1], b.y + d[2]>> : d \in data(b.id, b.r)}

InField(f, c) == c[1] >= 0 /\ c[1] < f.width /\ c[2] >= 0 /\ c[2] < f.height

\* Field::freeze: write block.id into each absolute cell of the block.
freeze(f, b) ==
    [f EXCEPT !.data =
        [y \in 1..f.height |->
            [x \in 1..f.width |->
                IF <<x - 1, y - 1>> \in Cells(b) THEN b.id ELSE f.data[y][x]]]]

\* Field::clear_lines: retain the rows with an empty cell, then insert empty
\* rows at index 0 until the height is restored.
retained(f) == SelectSeq(f.data, LAMBDA row : \E x \in 1..f.width : row[x] = None)

\* Field::clear_lines, the number of lines it returns.
cleared(f) == f.height - Len(retained(f))

\* A clear_lines that puts the empty rows after the retained ones.
clear_lines_below(f) ==
    [f EXCEPT !.data = retained(f) \o [i \in 1..cleared(f) |-> EmptyRow(f.width)]]

\* Field::clear_lines, the field afterwards.
clear_lines(f) ==
    [f EXCEPT !.data = [i \in 1..cleared(f) |-> EmptyRow(f.width)] \o retained(f)]

-----------------------------------------------------------------------------
(* block.rs: collision, shift, rotation *)

\* Block::new(id).on_field(field): at field.spawn with Rotation::R0.
on_field(id, f) == [id |-> id, x |-> f.spawn[1], y |-> f.spawn[2], r |-> R0]

\* Block::collision_at
collision_at(b, f, xo, yo) ==
    LET maxf == trailing(b)
        minf == leading(b)
    IN  \E d \in data(b.id, b.r) :
            LET x == b.x + d[1] + xo
                y == b.y + d[2] + yo
            IN  \/ x - minf[1] < 0
                \/ x + maxf[1] > f.width
                \/ y - minf[2] < 0
                \/ y + maxf[2] > f.height
                \/ get(f, x, y) # None

\* Block::collision
collision(b, f) == collision_at(b, f, 0, 0)

\* Block::shift_raw; the result is [b: the block afterwards, ok: the return value]
shift_raw(b, f, x, y) ==
    IF ~collision_at(b, f, x, y)
    THEN [b |-> [b EXCEPT !.x = b.x + x, !.y = b.y + y], ok |-> TRUE]
    ELSE [b |-> b, ok |-> FALSE]

\* Direction to shift vector, as in Block::shift
DirVec(direction) ==
    CASE direction = "Left"  -> <<-1, 0>>
      [] direction = "Right" -> <<1, 0>>
      [] direction = "Down"  -> <<0, 1>>

\* Block::shift
shift(b, f, direction) == shift_raw(b, f, DirVec(direction)[1], DirVec(direction)[2])

\* Block::shift_extend: shift until a shift fails; s is the result of the last shift.
RECURSIVE shift_extend(_, _, _)
shift_again(s, f, direction) ==
    IF s.ok THEN shift_extend(s.b, f, direction) ELSE s.b

shift_extend(b, f, direction) == shift_again(shift(b, f, direction), f, direction)

\* A new_rotation that turns R90 and R270 the other way round.
new_rotation_mirrored(b, rotation) ==
    CASE rotation = R0   -> b.r
      [] rotation = R90  -> anticlockwise(b.r)
      [] rotation = R180 -> clockwise(clockwise(b.r))
      [] rotation = R270 -> clockwise(b.r)

\* The rotation rotate_with_offset turns the block to.
new_rotation(b, rotation) ==
    CASE rotation = R0   -> b.r
      [] rotation = R90  -> clockwise(b.r)
      [] rotation = R180 -> clockwise(clockwise(b.r))
      [] rotation = R270 -> anticlockwise(b.r)

\* A rotate_with_offset that leaves the block as the failed shift left it.
or_restore_keeps(s, b) == s

\* rotate_with_offset puts the block b back when the shift s failed.
or_restore(s, b) == IF s.ok THEN s ELSE [b |-> b, ok |-> FALSE]

\* Block::rotate_with_offset
rotate_with_offset(b, f, rotation, x, y) ==
    or_restore(shift_raw([b EXCEPT !.r = new_rotation(b, rotation)], f, x, y), b)

\* Block::rotate
rotate(b, f, rotation) == rotate_with_offset(b, f, rotation, 0, 0)

-----------------------------------------------------------------------------
(* wallkick/srs.rs and utility.rs *)

RIGHT_JLSTZ ==
    << << <<0,0>>, <<-1,0>>, <<-1,1>>,  <<0,-2>>, <<-1,-2>> >>,
       << <<0,0>>, <<1,0>>,  <<1,-1>>,  <<0,2>>,  <<1,2>> >>,
       << <<0,0>>, <<1,0>>,  <<1,1>>,   <<0,-2>>, <<1,-2>> >>,
       << <<0,0>>, <<-1,0>>, <<-1,-1>>, <<0,2>>,  <<-1,2>> >> >>

LEFT_JLSTZ ==
    << << <<0,0>>, <<1,0>>,  <<1,1>>,   <<0,-2>>, <<1,-2>> >>,
       << <<0,0>>, <<-1,0>>, <<-1,-1>>, <<0,2>>,  <<-1,2>> >>,
       << <<0,0>>, <<-1,0>>, <<-1,1>>,  <<0,-2>>, <<-1,-2>> >>,
       << <<0,0>>, <<1,0>>,  <<1,-1>>,  <<0,2>>,  <<1,2>> >> >>

RIGHT_I ==
    << << <<0,0>>, <<-2,0>>, <<1,0>>,  <<-2,-1>>, <<1,2>> >>,
       << <<0,0>>, <<-1,0>>, <<2,0>>,  <<-1,2>>,  <<2,-1>> >>,
       << <<0,0>>, <<2,0>>,  <<-1,0>>, <<2,1>>,   <<-1,-2>> >>,
       << <<0,0>>, <<1,0>>,  <<-2,0>>, <<1,-2>>,  <<2,-1>> >> >>

LEFT_I ==
    << << <<0,0>>, <<-1,0>>, <<2,0>>,  <<-1,2>>,  <<2,-1>> >>,
       << <<0,0>>, <<-2,0>>, <<1,0>>,  <<-2,-1>>, <<1,2>> >>,
       << <<0,0>>, <<1,0>>,  <<-2,0>>, <<1,-2>>,  <<-2,1>> >>,
       << <<0,0>>, <<2,0>>,  <<-1,0>>, <<2,1>>,   <<-1,-2>> >> >>

\* SRS::test: the ordered offsets to try (only R90 and R270 are requested).
SRS_test(b, r) ==
    IF b.id = "O" THEN << RIGHT_JLSTZ[1][1] >>
    ELSE IF r = R90
         THEN (IF b.id = "I" THEN RIGHT_I[b.r + 1] ELSE RIGHT_JLSTZ[b.r + 1])
         ELSE (IF b.id = "I" THEN LEFT_I[b.r + 1] ELSE LEFT_JLSTZ[b.r + 1])

\* The loop of rotate_with_wallkick over the offsets; s is the result of test i.
RECURSIVE try_offsets(_, _, _, _, _)
try_next(s, b, f, rotation, tests, i) ==
    IF s.ok THEN s ELSE try_offsets(b, f, rotation, tests, i + 1)

try_offsets(b, f, rotation, tests, i) ==
    IF i > Len(tests) THEN [b |-> b, ok |-> FALSE]
    ELSE try_next(rotate_with_offset(b, f, rotation, tests[i][1], tests[i][2]),
                  b, f, rotation, tests, i)

\* A rotate_with_wallkick that tries the rotation in place only.
rotate_with_wallkick_plain(b, f, rotation) == rotate_with_offset(b, f, rotation, 0, 0)

\* BlockHelper::rotate_with_wallkick: the first offset that does not collide wins.
rotate_with_wallkick(b, f, rotation) ==
    try_offsets(b, f, rotation, SRS_test(b, rotation), 1)

-----------------------------------------------------------------------------
(* controller.rs *)

\* Action
Actions == {"MoveLeft", "MoveRight", "MoveDown", "HardDrop",
            "RotateLeft", "RotateRight", "Hold", "Quit"}

\* Controller::new
Controller_new == [time |-> [a \in Actions |-> 0], active |-> [a \in Actions |-> FALSE]]

\* Controller::deactivate_all
deactivate_all(c) == [c EXCEPT !.active = [a \in Actions |-> FALSE]]

\* Controller::activate
activate(c, a) == [c EXCEPT !.active[a] = TRUE]

\* Controller::deactivate
deactivate(c, a) == [c EXCEPT !.active[a] = FALSE]

\* A Controller::update that keeps the time of an inactive action.
Controller_update_keeps(c) ==
    [c EXCEPT !.time = [a \in Actions |-> IF c.active[a] THEN c.time[a] + 1 ELSE c.time[a]]]

\* Controller::update
Controller_update(c) ==
    [c EXCEPT !.time = [a \in Actions |-> IF c.active[a] THEN c.time[a] + 1 ELSE 0]]

\* frontend gather_input: deactivate_all, then activate every action whose key is down.
gather_input(c, keys) ==
    [deactivate_all(c) EXCEPT !.active = [a \in Actions |-> a \in keys]]

-----------------------------------------------------------------------------
(* history.rs *)

\* History::new
History_new == [history |-> <<>>, snapshot |-> [a \in Actions |-> FALSE], tick_count |-> 0]

\* The actions in the order of their indices in the controller's arrays.
ActionOrder == <<"MoveLeft", "MoveRight", "MoveDown", "HardDrop",
                 "RotateLeft", "RotateRight", "Hold", "Quit">>

\* History::update, the match on (last, curr) for one action: the events pushed.
edge_events(h, last, curr, a) ==
    IF last /\ ~curr THEN << [press |-> FALSE, ticks |-> h.tick_count, action |-> a] >>
    ELSE IF ~last /\ curr THEN << [press |-> TRUE, ticks |-> h.tick_count, action |-> a] >>
    ELSE <<>>

\* History::update, the loop over the zipped snapshot and controller.active from index i.
RECURSIVE history_events(_, _, _)
history_events(h, c, i) ==
    IF i > Len(ActionOrder) THEN <<>>
    ELSE edge_events(h, h.snapshot[ActionOrder[i]], c.active[ActionOrder[i]], ActionOrder[i])
             \o history_events(h, c, i + 1)

\* History::update: push the events, count the tick; snapshot is not assigned.
History_update(h, c) ==
    [h EXCEPT !.history = @ \o history_events(h, c, 1), !.tick_count = @ + 1]

-----------------------------------------------------------------------------
(* randomizer/bag.rs and randomizer/mod.rs *)

\* BagRandomizer::new; shuffled is the outcome of the shuffle of Id::variants().
BagRandomizer_new(shuffled) == [lookahead |-> <<>>, head |-> 0, data |-> shuffled]

\* A shuffle that loses the last element and doubles the first.
shuffle_lossy(d, p) == [i \in 1..Len(d) |-> d[p[IF i = Len(d) THEN 1 ELSE i]]]

\* Rng::shuffle with outcome p, a permutation of the indices of d.
shuffle(d, p) == [i \in 1..Len(d) |-> d[p[i]]]

\* The data after the head moved to h; p is the outcome of the shuffle at a wrap.
wrap(d, h, p) == IF h = Len(d) THEN shuffle(d, p) ELSE d

\* A next_block whose bag wraps one element early.
next_block_short(b, p) ==
    [id |-> b.data[b.head + 1],
     b  |-> [b EXCEPT !.data = wrap(@, b.head + 2, p),
                      !.head = IF @ + 2 = Len(b.data) THEN 0 ELSE @ + 1]]

\* BagRandomizer::next_block; the block returned and the randomizer it leaves.
next_block(b, p) ==
    [id |-> b.data[b.head + 1],
     b  |-> [b EXCEPT !.data = wrap(@, b.head + 1, p),
                      !.head = IF @ + 1 = Len(b.data) THEN 0 ELSE @ + 1]]

\* A push that puts the block of the draw g at the front of the lookahead.
push_front(g) == [g.b EXCEPT !.lookahead = <<g.id>> \o @]

\* The randomizer after the block of the draw g was pushed to the lookahead.
push(g) == [g.b EXCEPT !.lookahead = Append(@, g.id)]

\* Randomizer::preview; the randomizer it leaves.
preview(b, amount, p) ==
    IF Len(b.lookahead) < amount THEN push(next_block(b, p)) ELSE b

\* The first amount blocks of the lookahead, which preview returns.
take(lookahead, amount) ==
    SubSeq(lookahead, 1, IF amount < Len(lookahead) THEN amount ELSE Len(lookahead))

\* A next that leaves the block it returns in the lookahead.
next_keeps(b, p) ==
    IF b.lookahead = <<>>
    THEN next_block(b, p)
    ELSE [id |-> Head(b.lookahead), b |-> b]

\* Randomizer::next; the block returned and the randomizer it leaves.
next(b, p) ==
    IF b.lookahead = <<>>
    THEN next_block(b, p)
    ELSE [id |-> Head(b.lookahead), b |-> [b EXCEPT !.lookahead = Tail(@)]]

-----------------------------------------------------------------------------
(* engine.rs *)

\* EngineInternal { ..Default::default() }
EngineInternal_default ==
    [status_timer |-> 0, gravity_counter |-> 0, soft_drop_counter |-> 0,
     hold_count |-> 0, locking |-> FALSE, lock_timer |-> 0, ihs_flag |-> FALSE,
     irs_flag |-> FALSE, irs_rotation |-> R0, need_piece |-> FALSE, piece_timer |-> 0]

\* Statistics::new
Statistics_new ==
    [lines |-> 0, pieces |-> 0, singles |-> 0, doubles |-> 0, triples |-> 0, fours |-> 0]

\* Field with the given options, every cell Id::None.
Field_new(o) ==
    [width |-> o.width, height |-> o.height, hidden |-> o.hidden, spawn |-> o.spawn,
     data |-> [y \in 1..o.height |-> EmptyRow(o.width)]]

\* The log of one update(): which steps ran and what they saw.
NoLog ==
    [lockout   |-> FALSE,  \* check_lockout() returned true
     bk_check  |-> <<>>,   \* the block and the hold slot at check_lockout()
     hd_check  |-> None,
     moved     |-> FALSE,  \* stat_move() ran past the first-frame checks
     bk_start  |-> <<>>,   \* the block when stat_move() was entered
     hard_drop |-> FALSE,  \* check_hard_drop() returned true
     froze     |-> FALSE,  \* check_lock() called fd.freeze()
     fbk       |-> <<>>,   \* the block that was frozen
     fd_before |-> <<>>,   \* field rows just before / just after that freeze
     fd_after  |-> <<>>,
     held      |-> 0,      \* do_hold() calls in this update
     hold_from |-> <<>>,   \* the block and the hold slot when do_hold() was entered
     hold_slot |-> None,
     hold_bk   |-> <<>>,   \* the block when do_hold() returned
     hold_drew |-> 0,      \* randomizer pieces consumed by do_hold()
     hold_next |-> None,   \* the piece the randomizer would serve to do_hold()
     refused   |-> FALSE,  \* check_hold() saw time(Hold) == 1 with hold_count >= hold_limit
     bk_refuse |-> <<>>,   \* the block and the hold slot at that check
     hd_refuse |-> None,
     shift_dir |-> None,   \* the direction check_move() called bk.shift() with
     locked    |-> FALSE,  \* check_lock() ran
     resting   |-> FALSE,  \* check_lock() found a collision at offset (0, 1)
     locking_in |-> FALSE, \* it.locking and it.lock_timer when check_lock() was entered
     timer_in  |-> 0,
     timer_at  |-> 0,      \* it.lock_timer when check_lock() decided about the freeze
     rests_at  |-> 0,      \* the observer rests at that moment
     spawn_since |-> 0,    \* the observer since when the piece was spawned
     fell_in   |-> FALSE,  \* check_gravity_and_soft_drop() ran
     falls     |-> 0,      \* bk.shift(Down) calls of check_gravity_and_soft_drop()
     gravity_in |-> 0,     \* the counters when its loop was entered
     soft_drop_in |-> 0,
     spawned   |-> FALSE,  \* do_piece_spawn() ran
     spawn_bk  |-> <<>>,   \* the block and the internal counts when update() had
     spawn_it  |-> <<>>]   \* spawned the piece and reset the counts

\* Engine::ticks
ticks(e, val) == val \div e.mspt

time(e, a) == e.co.time[a]

active(e, a) == e.co.active[a]

\* Engine::is_pressed divides by ticks(rate): the remainder is only evaluated
\* when the first two tests leave it undecided.
is_pressed_fails(e, action, rate) ==
    LET sct == time(e, action)
        das == ticks(e, e.op.das)
    IN  sct # 1 /\ sct >= das /\ ticks(e, rate) = 0

\* Engine::is_pressed
is_pressed(e, action, rate) ==
    LET sct == time(e, action)
        das == ticks(e, e.op.das)
    IN  sct = 1 \/ (sct >= das /\ ticks(e, rate) # 0 /\ (sct - das) % ticks(e, rate) = 0)

\* Engine::do_piece_spawn; n is the piece rd.next() returns.
do_piece_spawn(e, n) ==
    [e EXCEPT !.bk = on_field(n, e.fd), !.rd = e.rd + 1, !.holds = 0, !.rests = 0,
              !.lg.spawned = TRUE]

\* do_hold: what the log keeps of it; e is the engine when it was entered.
hold_log(e1, e) ==
    [e1 EXCEPT !.holds = @ + 1, !.rests = 0, !.lg.held = @ + 1, !.lg.hold_from = e.bk,
               !.lg.hold_slot = e.hd, !.lg.hold_bk = e1.bk]

\* A do_hold that swaps the ids and leaves the piece where it is.
do_hold_in_place(e, n) ==
    hold_log(IF e.hd = None
             THEN [e EXCEPT !.hd = e.bk.id, !.bk = [e.bk EXCEPT !.id = n], !.rd = @ + 1,
                            !.lg.hold_drew = 1, !.lg.hold_next = n]
             ELSE [e EXCEPT !.bk = [e.bk EXCEPT !.id = e.hd], !.hd = e.bk.id,
                            !.lg.hold_drew = 0], e)

\* Engine::do_hold; n is the piece rd.next() returns if it is called.
do_hold(e, n) ==
    hold_log(IF e.hd = None
             THEN [e EXCEPT !.hd = e.bk.id, !.bk = on_field(n, e.fd), !.rd = @ + 1,
                            !.lg.hold_drew = 1, !.lg.hold_next = n]
             ELSE [e EXCEPT !.bk = on_field(e.hd, e.fd), !.hd = e.bk.id,
                            !.lg.hold_drew = 0], e)

\* Engine::check_lockout
check_lockout(e) == collision(e.bk, e.fd)

\* A check_hold without the hold_limit test.
check_hold_unlimited(e, n) ==
    IF time(e, "Hold") = 1
    THEN [do_hold(e, n) EXCEPT !.it.hold_count = @ + 1]
    ELSE e

\* Engine::check_hold
check_hold(e, n) ==
    IF time(e, "Hold") = 1 /\ e.it.hold_count < e.op.hold_limit
    THEN [do_hold(e, n) EXCEPT !.it.hold_count = @ + 1]
    ELSE IF time(e, "Hold") = 1
         THEN [e EXCEPT !.lg.refused = TRUE, !.lg.bk_refuse = e.bk,
                        !.lg.hd_refuse = e.hd]
         ELSE e

\* check_move: bk.shift(&fd, direction), whether the block moves or not.
move(e, direction) ==
    [e EXCEPT !.bk = shift(e.bk, e.fd, direction).b, !.lg.shift_dir = direction]

\* A check_move that lets MoveLeft win whenever both keys are down.
check_move_both_left(e) ==
    IF \/ time(e, "MoveLeft") > ticks(e, e.op.das)
       \/ time(e, "MoveRight") > ticks(e, e.op.das)
    THEN move(e, "Left")
    ELSE e

\* check_move with MoveLeft and MoveRight both active.
check_move_both(e) ==
    IF \/ time(e, "MoveLeft") > ticks(e, e.op.das)
       \/ time(e, "MoveRight") > ticks(e, e.op.das)
    THEN move(e, IF time(e, "MoveLeft") < time(e, "MoveRight") THEN "Left" ELSE "Right")
    ELSE e

\* A check_move that shifts on every tick of a hold.
check_move_every_tick(e) ==
    IF active(e, "MoveLeft") /\ active(e, "MoveRight")
    THEN check_move_both(e)
    ELSE IF active(e, "MoveLeft") THEN move(e, "Left")
    ELSE IF active(e, "MoveRight") THEN move(e, "Right")
    ELSE e

\* Engine::check_move
check_move(e) ==
    IF active(e, "MoveLeft") /\ active(e, "MoveRight")
    THEN check_move_both(e)
    ELSE IF is_pressed_fails(e, "MoveLeft", e.op.arr)
    THEN [e EXCEPT !.panic = TRUE]
    ELSE IF is_pressed(e, "MoveLeft", e.op.arr)
    THEN move(e, "Left")
    ELSE IF is_pressed_fails(e, "MoveRight", e.op.arr)
    THEN [e EXCEPT !.panic = TRUE]
    ELSE IF is_pressed(e, "MoveRight", e.op.arr)
    THEN move(e, "Right")
    ELSE e

\* check_rotate, RotateLeft
rotate_left(e) ==
    IF time(e, "RotateLeft") = 1
    THEN [e EXCEPT !.bk = rotate_with_wallkick(e.bk, e.fd, R270).b]
    ELSE e

\* check_rotate, RotateRight
rotate_right(e) ==
    IF time(e, "RotateRight") = 1
    THEN [e EXCEPT !.bk = rotate_with_wallkick(e.bk, e.fd, R90).b]
    ELSE e

\* Engine::check_rotate: RotateLeft first, then RotateRight.
check_rotate(e) == rotate_right(rotate_left(e))

\* A check_hard_drop that moves the piece down one row only.
check_hard_drop_one_row(e) ==
    IF time(e, "HardDrop") = 1
    THEN [e EXCEPT !.bk = shift(e.bk, e.fd, "Down").b, !.lg.hard_drop = TRUE]
    ELSE e

\* Engine::check_hard_drop
check_hard_drop(e) ==
    IF time(e, "HardDrop") = 1
    THEN [e EXCEPT !.bk = shift_extend(e.bk, e.fd, "Down"), !.lg.hard_drop = TRUE]
    ELSE e

\* A pass of the loop that takes a cell from one counter only, the gravity
\* counter first.
fall_once_cumulative(e, s) ==
    [e EXCEPT !.bk = s.b, !.lg.falls = @ + 1,
              !.it.locking = IF s.ok THEN @ ELSE TRUE,
              !.it.gravity_counter = IF @ >= e.op.gravity.d THEN @ - e.op.gravity.d ELSE @,
              !.it.soft_drop_counter =
                  IF e.it.gravity_counter < e.op.gravity.d /\ @ >= e.op.soft_drop_speed.d
                  THEN @ - e.op.soft_drop_speed.d ELSE @]

\* One pass of the while loop of check_gravity_and_soft_drop; s is the result
\* of bk.shift(Down).  The counters are exact fractions: gravity_counter counts
\* 1/op.gravity.d cells, soft_drop_counter counts 1/op.soft_drop_speed.d cells.
fall_once(e, s) ==
    [e EXCEPT !.bk = s.b, !.lg.falls = @ + 1,
              !.it.locking = IF s.ok THEN @ ELSE TRUE,
              !.it.gravity_counter = IF @ >= e.op.gravity.d THEN @ - e.op.gravity.d ELSE @,
              !.it.soft_drop_counter =
                  IF @ >= e.op.soft_drop_speed.d THEN @ - e.op.soft_drop_speed.d ELSE @]

\* The while loop of check_gravity_and_soft_drop.
RECURSIVE fall_loop(_)
fall_loop(e) ==
    IF \/ e.it.gravity_counter >= e.op.gravity.d
       \/ e.it.soft_drop_counter >= e.op.soft_drop_speed.d
    THEN fall_loop(fall_once(e, shift(e.bk, e.fd, "Down")))
    ELSE e

\* check_gravity_and_soft_drop, the counters before the loop.
add_fall(e) ==
    [e EXCEPT !.it.gravity_counter = @ + e.mspt * e.op.gravity.n,
              !.it.soft_drop_counter =
                  IF active(e, "MoveDown") THEN @ + e.mspt * e.op.soft_drop_speed.n ELSE 0]

\* What the log keeps of the counters before the loop.
fall_log(e) ==
    [e EXCEPT !.lg.fell_in = TRUE, !.lg.gravity_in = e.it.gravity_counter,
              !.lg.soft_drop_in = e.it.soft_drop_counter]

\* Engine::check_gravity_and_soft_drop
check_gravity_and_soft_drop(e) == fall_loop(fall_log(add_fall(e)))

\* A check_lock that lets the lock timer run on over a gap.
lock_reset_never(e) == e

\* check_lock: reset the lock timer if over a gap.
lock_reset(e) ==
    IF ~collision_at(e.bk, e.fd, 0, 1)
    THEN [e EXCEPT !.it.locking = FALSE, !.it.lock_timer = 0]
    ELSE e

\* What the log keeps of the entry of check_lock.
lock_log_in(e) ==
    [e EXCEPT !.lg.locked = TRUE, !.lg.resting = collision_at(e.bk, e.fd, 0, 1),
              !.lg.locking_in = e.it.locking, !.lg.timer_in = e.it.lock_timer]

\* What the log keeps of the moment check_lock decides about the freeze.
lock_log_at(e) == [e EXCEPT !.lg.timer_at = e.it.lock_timer, !.lg.rests_at = e.rests]

\* check_lock: the state to go to after the freeze.
lock_status(e) ==
    IF e.op.are # 0
    THEN [e EXCEPT !.status = "Are"]
    ELSE [e EXCEPT !.it.status_timer = 0, !.it.need_piece = TRUE, !.status = "Move"]

\* check_lock: fd.freeze(bk); f is the field afterwards.
lock_freeze(e, f) ==
    [e EXCEPT !.fd = f, !.locks = @ + 1, !.since = 0, !.lg.froze = TRUE, !.lg.fbk = e.bk,
              !.lg.fd_before = e.fd.data, !.lg.fd_after = f.data]

\* check_lock: lock the piece if instant lock or over lock delay.
lock_piece(e) ==
    IF e.it.lock_timer > ticks(e, e.op.lock_delay) \/ time(e, "HardDrop") = 1
    THEN lock_status(lock_freeze(e, freeze(e.fd, e.bk)))
    ELSE e

\* A check_lock whose lock timer never runs.
lock_count_never(e) == [e EXCEPT !.rests = 0]

\* check_lock: update the lock delay.
lock_count(e) ==
    IF e.it.locking
    THEN [e EXCEPT !.it.lock_timer = @ + 1, !.rests = @ + 1]
    ELSE [e EXCEPT !.rests = 0]

\* Engine::check_lock
check_lock(e) == lock_count(lock_piece(lock_log_at(lock_reset(lock_log_in(e)))))

\* stat_move, first frame of a piece: initial hold.
initial_hold(e, n) ==
    IF e.it.ihs_flag THEN [do_hold(e, n) EXCEPT !.it.ihs_flag = FALSE] ELSE e

\* stat_move, first frame of a piece: initial rotation.
initial_rotate(e) ==
    IF e.it.irs_flag
    THEN [e EXCEPT !.bk = rotate_with_wallkick(e.bk, e.fd, e.it.irs_rotation).b,
                   !.it.irs_flag = FALSE, !.it.irs_rotation = R0]
    ELSE e

\* stat_move, first frame of a piece: initial hold, then initial rotation.
first_frame(e, n) == initial_rotate(initial_hold(e, n))

\* stat_move: move and gravity, in the order gravity_before_move asks for.
move_and_fall(e) ==
    IF e.op.gravity_before_move
    THEN check_move(check_gravity_and_soft_drop(e))
    ELSE check_gravity_and_soft_drop(check_move(e))

\* stat_move: hold, rotate, move and gravity unless check_hard_drop() returned true.
unless_dropped(e, n) ==
    IF e.lg.hard_drop THEN e ELSE move_and_fall(check_rotate(check_hold(e, n)))

\* An end of stat_move that leaves the field as the lock left it.
end_frame_keeps_lines(e) == [e EXCEPT !.it.piece_timer = @ + 1]

\* stat_move: line clear and the piece timer.
end_frame(e) == [e EXCEPT !.fd = clear_lines(e.fd), !.it.piece_timer = @ + 1]

\* stat_move after the first-frame checks: hard drop, else hold, rotate, move
\* and gravity; then lock, line clear and the piece timer.
move_steps(e, n) ==
    end_frame(check_lock(unless_dropped(check_hard_drop([e EXCEPT !.lg.moved = TRUE]), n)))

\* stat_move: check_lockout() returned true.
lockout(e) ==
    [e EXCEPT !.status = "GameOver", !.lg.lockout = TRUE,
              !.lg.bk_check = e.bk, !.lg.hd_check = e.hd]

\* A check of the spawned piece without the early return after a collision.
lockout_or_move_runs_on(e, n) ==
    IF check_lockout(e) THEN move_steps(lockout(e), n) ELSE move_steps(e, n)

\* stat_move, first frame: GameOver and return if the piece collides.
lockout_or_move(e, n) ==
    IF check_lockout(e) THEN lockout(e) ELSE move_steps(e, n)

\* Engine::stat_move; n is the piece rd.next() returns if a hold asks for one.
stat_move(e, n) ==
    IF e.it.piece_timer = 0
    THEN lockout_or_move(first_frame([e EXCEPT !.lg.bk_start = e.bk], n), n)
    ELSE move_steps([e EXCEPT !.lg.bk_start = e.bk], n)

\* A stat_are that leaves Are one tick earlier.
stat_are_at_least(e) ==
    IF e.it.status_timer >= ticks(e, e.op.are)
    THEN [e EXCEPT !.it.need_piece = TRUE, !.status = "Move"]
    ELSE e

\* Engine::stat_are
stat_are(e) ==
    IF e.it.status_timer > ticks(e, e.op.are)
    THEN [e EXCEPT !.it.need_piece = TRUE, !.status = "Move"]
    ELSE e

\* A stat_gameover that leaves running alone.
stat_gameover_idle(e) == e

\* Engine::stat_gameover
stat_gameover(e) == [e EXCEPT !.running = FALSE]

\* update: co.update() and last_status; the log starts empty.
begin(e) ==
    [e EXCEPT !.co = Controller_update(e.co), !.last_status = e.status, !.lg = NoLog,
              !.since = @ + 1]

\* A reset of the counts of a piece that leaves the piece timer running.
reset_counts_but_timer(e) ==
    [e EXCEPT !.it.need_piece = FALSE, !.it.locking = FALSE,
              !.it.hold_count = 0, !.it.lock_timer = 0,
              !.it.soft_drop_counter = 0, !.it.gravity_counter = 0]

\* update: need_piece is cleared and all internal counts of the piece are reset.
reset_counts(e) ==
    [e EXCEPT !.it.need_piece = FALSE, !.it.locking = FALSE,
              !.it.piece_timer = 0, !.it.hold_count = 0, !.it.lock_timer = 0,
              !.it.soft_drop_counter = 0, !.it.gravity_counter = 0]

\* What the log keeps of the spawn.
spawn_log(e) == [e EXCEPT !.lg.spawn_bk = e.bk, !.lg.spawn_it = e.it, !.lg.spawn_since = e.since]

\* update: spawn a piece if one is needed; n is the piece rd.next() returns.
spawn_if_needed(e, n) ==
    IF e.it.need_piece THEN spawn_log(reset_counts(do_piece_spawn(e, n))) ELSE e

\* update: match self.status
dispatch(e, n) ==
    CASE e.status = "Move"     -> stat_move(e, n)
      [] e.status = "Are"      -> stat_are(e)
      [] e.status = "GameOver" -> stat_gameover(e)
      [] OTHER                 -> e

\* update: the status timer.
count_status(e) ==
    IF e.status # e.last_status
    THEN [e EXCEPT !.it.status_timer = 0]
    ELSE [e EXCEPT !.it.status_timer = @ + 1]

\* Engine::update; n1 is the piece rd.next() returns to do_piece_spawn, n2 the
\* piece it returns to do_hold.
update(e, n1, n2) == count_status(dispatch(spawn_if_needed(begin(e), n1), n2))

\* Engine::new
Engine_new(options) ==
    [co |-> Controller_new, rd |-> 0, fd |-> Field_new(options.field_options),
     bk |-> [id |-> None, x |-> 0, y |-> 0, r |-> R0], hd |-> None,
     op |-> options.engine_settings, st |-> Statistics_new, running |-> TRUE,
     mspt |-> options.mspt, tick_count |-> 0,
     it |-> [EngineInternal_default EXCEPT !.need_piece = TRUE],
     status |-> "Move", last_status |-> "Move",
     locks |-> 0, holds |-> 0, rests |-> 0, since |-> 0, lg |-> NoLog, panic |-> FALSE]

-----------------------------------------------------------------------------
(* The state machine *)

\* Engine options explored.  Times are in ms, gravity and soft_drop_speed in
\* cells per ms as exact fractions n/d.
OptionsA ==
    [field_options |-> [width |-> 6, height |-> 3, hidden |-> 0, spawn |-> <<0, 0>>],
     randomizer_name |-> "memoryless", rotation_system_name |-> "srs",
     wallkick_name |-> "srs", mspt |-> 16,
     engine_settings |->
         [are |-> 0, arr |-> 16, das |-> 32,
          soft_drop_speed |-> [n |-> 2, d |-> 16], lock_delay |-> 16, hold_limit |-> 1,
          gravity |-> [n |-> 1, d |-> 32], gravity_before_move |-> FALSE]]

OptionsB ==
    [field_options |-> [width |-> 6, height |-> 4, hidden |-> 1, spawn |-> <<0, 0>>],
     randomizer_name |-> "memoryless", rotation_system_name |-> "srs",
     wallkick_name |-> "srs", mspt |-> 16,
     engine_settings |->
         [are |-> 32, arr |-> 16, das |-> 32,
          soft_drop_speed |-> [n |-> 1, d |-> 16], lock_delay |-> 0, hold_limit |-> 2,
          gravity |-> [n |-> 1, d |-> 16], gravity_before_move |-> TRUE]]

OptionsSet == {OptionsA, OptionsB}

\* Key states the front end can report before an update.
InputSets ==
    {{}} \cup {{a} : a \in Actions}
         \cup {{"HardDrop", a} : a \in Actions}
         \cup {{"MoveLeft", "MoveRight"}}

\* The engine as one record.
Engine ==
    [co |-> co, rd |-> rd, fd |-> fd, bk |-> bk, hd |-> hd, op |-> op, st |-> st,
     running |-> running, mspt |-> mspt, tick_count |-> tick_count, it |-> it,
     status |-> status, last_status |-> last_status,
     locks |-> locks, holds |-> holds, rests |-> rests, since |-> since, lg |-> lg,
     panic |-> panic]

Is(e) ==
    /\ co = e.co /\ rd = e.rd /\ fd = e.fd /\ bk = e.bk /\ hd = e.hd
    /\ op = e.op /\ st = e.st /\ running = e.running /\ mspt = e.mspt
    /\ tick_count = e.tick_count /\ it = e.it /\ status = e.status
    /\ last_status = e.last_status /\ locks = e.locks /\ holds = e.holds
    /\ rests = e.rests /\ since = e.since
    /\ lg = e.lg /\ panic = e.panic

\* No library call has been made directly.
NoCall == [op |-> "none"]

\* The library components as the engine constructs them.
LibInit ==
    /\ hs = History_new
    /\ bag = BagRandomizer_new(variants)
    /\ call = NoCall
    /\ acts = <<>>
    /\ out = <<>>

Init ==
    /\ \E options \in OptionsSet : Is(Engine_new(options))
    /\ calls = 0
    /\ LibInit

\* An engine whose autorepeat rate is below one tick.
OptionsArr == [OptionsA EXCEPT !.engine_settings.arr = 0]

\* The engine constructed with OptionsArr.
InitArr ==
    /\ Is(Engine_new(OptionsArr))
    /\ calls = 0
    /\ LibInit

Becomes(e) ==
    /\ co' = e.co /\ rd' = e.rd /\ fd' = e.fd /\ bk' = e.bk /\ hd' = e.hd
    /\ op' = e.op /\ st' = e.st /\ running' = e.running /\ mspt' = e.mspt
    /\ tick_count' = e.tick_count /\ it' = e.it /\ status' = e.status
    /\ last_status' = e.last_status /\ locks' = e.locks /\ holds' = e.holds
    /\ rests' = e.rests /\ since' = e.since
    /\ lg' = e.lg /\ panic' = e.panic

\* One frame of the front end's loop: gather_input, then Engine::update.
Update(keys, n1, n2) ==
    /\ calls < MaxCalls
    /\ ~panic
    /\ \E e \in {update([Engine EXCEPT !.co = gather_input(co, keys)], n1, n2)} :
           Becomes(e)
    /\ calls' = calls + 1
    /\ UNCHANGED lib_vars

\* The pieces the randomizer may serve to a request; a request that cannot be
\* made in this update is not enumerated.
Draws(requested) == IF requested THEN PieceIds ELSE {variants[1]}

Next ==
    \E keys \in InputSets :
        \E n1 \in Draws(it.need_piece), n2 \in Draws(hd = None /\ "Hold" \in keys) :
            Update(keys, n1, n2)

Spec == Init /\ [][Next]_vars

\* The same front end loop on the engine constructed with OptionsArr.
SpecArr == InitArr /\ [][Next]_vars

-----------------------------------------------------------------------------
(* Properties of Engine::update() *)

\* A cell of the active block lies on a filled cell of the field.
Overlaps == \E c \in Cells(bk) : InField(fd, c) /\ get(fd, c[1], c[2]) # None

\* A piece is in play: the engine is in Move and no spawn is pending.
PieceInPlay == calls > 0 /\ status = "Move" /\ ~it.need_piece

\* C1: after every update(), no absolute cell of the active block coincides
\* with a filled cell of the field (outside the tick of a spawn-collision
\* GameOver).  Stated for the piece in play: a block that was just frozen, or
\* that lost the game, is not counted.
C1_ActiveBlockClearOfField == PieceInPlay => ~Overlaps

\* C2: when the newly spawned piece collides at the first-frame check, that
\* update sets the status to GameOver and runs none of hard drop, hold,
\* rotation, movement, gravity, lock or line clear: the field is the one before
\* the update, the block and the hold slot are those seen by the check.
C2_SpawnCollisionEndsGame ==
    [][lg'.lockout =>
          /\ status' = "GameOver"
          /\ fd' = fd
          /\ bk' = lg'.bk_check
          /\ hd' = lg'.hd_check
          /\ locks' = locks
          /\ ~lg'.moved /\ ~lg'.hard_drop /\ ~lg'.froze /\ ~lg'.refused
          /\ it'.piece_timer = 0 /\ it'.gravity_counter = 0 /\ it'.lock_timer = 0]_vars

\* C2 witness: a spawn collision has just ended the game.
C2_Witness == lg.lockout /\ status = "GameOver" /\ last_status = "Move"

\* C3: GameOver is terminal.  From GameOver every update() leaves the status,
\* the field, the active block and the hold slot as they are, draws no piece
\* and leaves running false, whatever keys are down.
C3_GameOverIsTerminal ==
    [][status = "GameOver" =>
          /\ status' = "GameOver"
          /\ fd' = fd /\ bk' = bk /\ hd' = hd /\ rd' = rd
          /\ ~running']_vars

\* C3 witness: an update() ran in GameOver with a key newly pressed.
C3_Witness ==
    /\ status = "GameOver" /\ last_status = "GameOver" /\ ~running
    /\ \E a \in Actions : co.time[a] = 1

\* The block b of the field with rows `rows`, moved straight down, comes to rest at row y.
DropsStraightTo(b, rows, y) ==
    LET f == [fd EXCEPT !.data = rows]
    IN  /\ y >= b.y
        /\ \A yy \in (b.y + 1)..y : ~collision([b EXCEPT !.y = yy], f)
        /\ collision([b EXCEPT !.y = y + 1], f)

\* A Move tick that got past the spawn check with HardDrop newly pressed.
HardDropTick == lg.moved /\ co.time["HardDrop"] = 1

C5_HoldLimit ==
    /\ it.hold_count <= op.hold_limit
    /\ holds <= op.hold_limit
    /\ lg.refused => (bk.id = lg.bk_refuse.id /\ hd = lg.hd_refuse /\ lg.held = 0)

\* C5 witness: Hold was newly pressed with the limit already used up.
C5_Witness == lg.refused /\ it.hold_count = op.hold_limit /\ ~lg.froze

\* The piece a hold brings into play: the held one, else the randomizer's next.
HoldBrings == IF lg.hold_slot = None THEN lg.hold_next ELSE lg.hold_slot

\* C6: a hold stores the id of the piece that was in play in the hold slot and
\* brings the held id into play, or the randomizer's next piece when the slot
\* was empty (consuming exactly one piece then, none otherwise); the new piece
\* is at field.spawn with rotation R0.
C6_HoldSwaps ==
    [][lg'.held > 0 =>
          /\ lg'.held = 1
          /\ lg'.hold_slot = hd
          /\ hd' = lg'.hold_from.id
          /\ lg'.hold_bk = [id |-> HoldBrings', x |-> fd.spawn[1], y |-> fd.spawn[2],
                            r |-> R0]
          /\ bk'.id = HoldBrings'
          /\ rd' = rd + (IF lg'.spawned THEN 1 ELSE 0) + (IF hd = None THEN 1 ELSE 0)]_vars

\* C6 witness: a hold swapped the piece in play with a piece held earlier.
C6_Witness == lg.held = 1 /\ lg.hold_slot # None /\ hd # bk.id

\* C7: every freeze writes only cells inside the field that were empty just before.
C7_FreezeWritesEmptyCells ==
    lg.froze =>
        \A c \in Cells(lg.fbk) : InField(fd, c) /\ lg.fd_before[c[2] + 1][c[1] + 1] = None

\* C8: tick_count equals the number of update() calls made since construction.
C8_TickCountCountsUpdates == tick_count = calls

\* C9: statistics.pieces equals the number of pieces frozen into the field.
C9_PiecesCountsLocks == st.pieces = locks

\* C10: when Quit is newly pressed on a Move tick, running is false when that
\* update() returns.
C10_QuitStopsEngine ==
    (calls > 0 /\ last_status = "Move" /\ co.time["Quit"] = 1) => ~running

\* C28: whenever a piece is frozen, by hard drop or by lock delay: with are > 0
\* the status becomes Are; with are == 0 the status stays Move with need_piece
\* set, and the next update() draws the next randomizer piece and places it at
\* field.spawn with rotation R0, with hold_count, lock_timer, locking,
\* piece_timer and both fall counters reset to zero.
C28_FreezeThenSpawn ==
    /\ [](lg.froze => IF op.are # 0
                      THEN status = "Are"
                      ELSE status = "Move" /\ it.need_piece)
    /\ [][ (lg.froze /\ op.are = 0) =>
             /\ lg'.spawned
             /\ rd' = rd + 1 + lg'.hold_drew
             /\ lg'.spawn_bk.id \in PieceIds
             /\ lg'.spawn_bk = on_field(lg'.spawn_bk.id, fd)
             /\ lg'.spawn_bk.r = R0
             /\ lg'.spawn_it.hold_count = 0
             /\ lg'.spawn_it.lock_timer = 0
             /\ ~lg'.spawn_it.locking
             /\ lg'.spawn_it.piece_timer = 0
             /\ lg'.spawn_it.soft_drop_counter = 0
             /\ lg'.spawn_it.gravity_counter = 0 ]_vars

\* With are == 0, the update after a freeze spawned a piece and the game goes on.
C28_Witness ==
    /\ op.are = 0 /\ locks >= 1
    /\ lg.spawned /\ lg.moved /\ status = "Move"

-----------------------------------------------------------------------------
(* The engine with a delayed autoshift of three ticks and a repeat rate of   *)
(* two, driven by the move keys and the hard drop.                           *)

\* The number of updates followed.
MaxHold == 8

OptionsDas == [OptionsA EXCEPT !.engine_settings.das = 48, !.engine_settings.arr = 32]

InitDas ==
    /\ Is(Engine_new(OptionsDas))
    /\ calls = 0
    /\ LibInit

\* The keys the front end reports.
MoveKeys == {{}, {"MoveLeft"}, {"MoveRight"}, {"MoveLeft", "MoveRight"}, {"HardDrop"}}

\* One frame of the front end's loop: gather_input, then Engine::update.
UpdateHeld(keys, n) ==
    /\ calls < MaxHold
    /\ \E e \in {update([Engine EXCEPT !.co = gather_input(co, keys)], n, n)} :
           Becomes(e)
    /\ calls' = calls + 1
    /\ UNCHANGED lib_vars

NextDas == \E keys \in MoveKeys : \E n \in Draws(it.need_piece) : UpdateHeld(keys, n)

SpecDas == InitDas /\ [][NextDas]_vars

\* update() was called with the status Move.
MoveTick == calls > 0 /\ last_status = "Move"

\* a is the only action that is active.
OnlyHeld(a) == \A b \in Actions : co.active[b] <=> b = a

\* is_pressed as the specification states it, for the press time t.
Pressed(t) ==
    \/ t = 1
    \/ /\ t >= op.das \div mspt
       /\ (t - op.das \div mspt) % (op.arr \div mspt) = 0

\* The direction the action a shifts to.
DirectionOf(a) == IF a = "MoveLeft" THEN "Left" ELSE "Right"

BothHeld == co.active["MoveLeft"] /\ co.active["MoveRight"]

\* C30 as stated: with MoveLeft and MoveRight both active on a Move tick, the
\* only horizontal shift attempted is in the direction of the action with the
\* smaller press time, and only if one of the press times exceeds ticks(das).
C30_SmallerTimeWins ==
    (MoveTick /\ BothHeld /\ lg.shift_dir # None) =>
        /\ lg.shift_dir = "Left" => co.time["MoveLeft"] < co.time["MoveRight"]
        /\ lg.shift_dir = "Right" => co.time["MoveRight"] < co.time["MoveLeft"]
        /\ \/ co.time["MoveLeft"] > op.das \div mspt
           \/ co.time["MoveRight"] > op.das \div mspt

\* C30 amended: the shift is to the left when the press time of MoveLeft is
\* the smaller one and to the right otherwise, equal press times included.
C30_SmallerTimeWinsTieRight ==
    (MoveTick /\ BothHeld /\ lg.shift_dir # None) =>
        /\ lg.shift_dir = "Left" <=> co.time["MoveLeft"] < co.time["MoveRight"]
        /\ lg.shift_dir = "Right" <=> co.time["MoveRight"] <= co.time["MoveLeft"]
        /\ \/ co.time["MoveLeft"] > op.das \div mspt
           \/ co.time["MoveRight"] > op.das \div mspt

\* Both keys went down on the same tick and were held past the delay: the
\* shift goes to the right.
C30_Witness ==
    /\ MoveTick /\ BothHeld
    /\ co.time["MoveLeft"] = co.time["MoveRight"]
    /\ lg.shift_dir = "Right"

\* C31: at the end of every Move tick whose lock check found no collision at
\* offset (0, 1), that is a piece that could still fall one cell, locking is
\* false and lock_timer is 0.
C31_FallingPieceNotLocking ==
    (lg.locked /\ ~lg.resting) => (~it.locking /\ it.lock_timer = 0)

\* A piece that was locking, with a running lock timer, is over a gap at the
\* lock check.
C31_Witness ==
    /\ lg.locked /\ ~lg.resting /\ ~lg.froze
    /\ lg.locking_in /\ lg.timer_in > 0


\* The lock check of this update ran without a hard drop on the same tick.
DelayCheck == lg.locked /\ ~lg.hard_drop

-----------------------------------------------------------------------------
(* The spawn delay: the front end loop on an engine with are > 0 *)

MaxAre == 8

\* The engine constructed with OptionsB, whose are is two ticks.
InitAre ==
    /\ Is(Engine_new(OptionsB))
    /\ calls = 0
    /\ LibInit

\* The keys the front end reports.
AreKeys == {{}, {"HardDrop"}, {"Hold"}, {"RotateLeft"}, {"RotateRight"}}

\* One frame of the front end's loop: gather_input, then Engine::update.
UpdateAre(keys, n) ==
    /\ calls < MaxAre
    /\ \E e \in {update([Engine EXCEPT !.co = gather_input(co, keys)], n, n)} :
           Becomes(e)
    /\ calls' = calls + 1
    /\ UNCHANGED lib_vars

NextAre == \E keys \in AreKeys : \E n \in Draws(it.need_piece) : UpdateAre(keys, n)

SpecAre == InitAre /\ [][NextAre]_vars

\* The engine waits for the piece that follows a lock.
Waiting == locks > 0 /\ (status = "Are" \/ it.need_piece)

\* This update spawned a piece that follows a lock.
SpawnedAfterLock == lg.spawned /\ locks > (IF lg.froze THEN 1 ELSE 0)

\* C33: after a lock with are > 0 an update in Are changes neither the field
\* nor the block; it stays in Are until status_timer exceeds ticks(are) and
\* then sets need_piece and returns to Move; the piece that follows a lock is
\* spawned within ticks(are) + 3 update() calls of the lock and not earlier
\* than ticks(are) calls after it.
C33_AreThenSpawn ==
    /\ [][status = "Are" =>
             /\ fd' = fd /\ bk' = bk
             /\ IF it.status_timer > op.are \div mspt
                THEN status' = "Move" /\ it'.need_piece
                ELSE status' = "Are" /\ ~it'.need_piece]_vars
    /\ [](op.are # 0 /\ Waiting => since < op.are \div mspt + 3)
    /\ [](op.are # 0 /\ SpawnedAfterLock =>
             /\ lg.spawn_since >= op.are \div mspt
             /\ lg.spawn_since <= op.are \div mspt + 3)

\* With are two ticks, the piece that follows a lock is spawned by the fifth
\* update() call after the lock.
C33_Witness ==
    /\ op.are \div mspt = 2 /\ SpawnedAfterLock
    /\ lg.spawn_since = 5 /\ last_status = "Move"


\* update() ran stat_are, and the action a was newly pressed on that tick.
PressedInAre(a) == calls > 0 /\ last_status = "Are" /\ co.time[a] = 1

\* C34: a Hold press during Are sets ihs_flag, a RotateLeft press during Are
\* sets irs_flag with irs_rotation R270 and a RotateRight press sets it with
\* R90; a Move tick leaves both flags cleared.
C34_InitialActionsInAre ==
    /\ PressedInAre("Hold") => it.ihs_flag
    /\ PressedInAre("RotateLeft") => it.irs_flag /\ it.irs_rotation = R270
    /\ PressedInAre("RotateRight") => it.irs_flag /\ it.irs_rotation = R90
    /\ lg.moved => ~it.ihs_flag /\ ~it.irs_flag


\* The gravity step of this update ran while MoveDown was held.
SoftDropTick == lg.fell_in /\ co.active["MoveDown"]

\* The whole cells in the gravity counter and in the soft drop counter when the
\* loop of the gravity step was entered.
GravityCells == lg.gravity_in \div op.gravity.d
SoftDropCells == lg.soft_drop_in \div op.soft_drop_speed.d

\* C35 as stated: on a tick where MoveDown is held the gravity step attempts as
\* many downward shifts as there are whole cells in the gravity counter plus
\* whole cells in the soft drop counter.
C35_SoftDropAdds == SoftDropTick => lg.falls = GravityCells + SoftDropCells

\* C35, amended: on a tick where MoveDown is held the gravity step attempts as
\* many downward shifts as the larger of the two counters has whole cells.
C35_SoftDropTakesLarger ==
    SoftDropTick =>
        lg.falls = IF GravityCells > SoftDropCells THEN GravityCells ELSE SoftDropCells

\* Both counters hold a whole cell on a tick where MoveDown is held.
C35_Witness ==
    /\ SoftDropTick /\ GravityCells >= 1 /\ SoftDropCells >= 1
    /\ lg.falls < GravityCells + SoftDropCells


\* The cell c lies on the floor of a field of the given height and rows, or on
\* a filled cell.
Supported(rows, c) ==
    \/ c[2] + 1 >= Len(rows)
    \/ /\ c[2] + 1 >= 0 /\ c[1] >= 0 /\ c[1] < Len(rows[1])
       /\ rows[c[2] + 2][c[1] + 1] # None

\* C37: whenever the engine freezes a piece into the field, one of its cells
\* lies on the floor or on a filled cell: moving it one cell down would
\* collide, the piece is not locked in mid-air.
C37_FrozenPieceRests ==
    lg.froze => \E c \in Cells(lg.fbk) : Supported(lg.fd_before, c)


-----------------------------------------------------------------------------
(* The front end loop on an engine whose das is below one tick *)

\* An engine whose delayed auto shift is below one tick: ticks(das) == 0.
OptionsNoDas == [OptionsA EXCEPT !.engine_settings.das = 8]

\* The engine constructed with OptionsNoDas.
InitNoDas ==
    /\ Is(Engine_new(OptionsNoDas))
    /\ calls = 0
    /\ LibInit

SpecNoDas == InitNoDas /\ [][NextDas]_vars

\* C38: an update in Move in which neither MoveLeft nor MoveRight is active and
\* no hold, rotation or spawn happens leaves the x coordinate of the active
\* piece unchanged, whatever das and arr are.
C38_NoKeyNoShift ==
    [][(/\ last_status' = "Move"
        /\ ~co'.active["MoveLeft"] /\ ~co'.active["MoveRight"]
        /\ co'.time["RotateLeft"] # 1 /\ co'.time["RotateRight"] # 1
        /\ lg'.held = 0 /\ ~lg'.spawned)
       => bk'.x = bk.x]_vars


-----------------------------------------------------------------------------
(* Line clears: the front end loop on a field four cells wide *)

MaxLines == 6

\* An engine whose field two upright pieces fill from wall to wall.
OptionsLines ==
    [OptionsA EXCEPT !.field_options.width = 4, !.field_options.height = 7]

\* The engine constructed with OptionsLines.
InitLines ==
    /\ Is(Engine_new(OptionsLines))
    /\ calls = 0
    /\ LibInit

\* The keys the front end reports.
LineKeys == {{}, {"RotateLeft"}, {"MoveRight"}, {"HardDrop"}}

\* One frame of the front end's loop: gather_input, then Engine::update.
UpdateLines(keys, n) ==
    /\ calls < MaxLines
    /\ \E e \in {update([Engine EXCEPT !.co = gather_input(co, keys)], n, n)} :
           Becomes(e)
    /\ calls' = calls + 1
    /\ UNCHANGED lib_vars

NextLines == \E keys \in LineKeys : \E n \in Draws(it.need_piece) : UpdateLines(keys, n)

SpecLines == InitLines /\ [][NextLines]_vars

\* The row is completely filled.
Complete(row) == \A x \in 1..Len(row) : row[x] # None

\* C39: after every update() the field has no completely filled row and has
\* height rows of width cells each.
C39_NoFullRowAfterUpdate ==
    /\ \A y \in 1..Len(fd.data) : ~Complete(fd.data[y])
    /\ Len(fd.data) = fd.height
    /\ \A y \in 1..Len(fd.data) : Len(fd.data[y]) = fd.width
    /\ fd.height = OptionsLines.field_options.height
    /\ fd.width = OptionsLines.field_options.width

\* The lock of this update completed a row, which the same update removed.
C39_Witness ==
    /\ lg.froze
    /\ \E y \in 1..Len(lg.fd_after) : Complete(lg.fd_after[y])
    /\ \A y \in 1..Len(fd.data) : ~Complete(fd.data[y])
    /\ \E y \in 1..Len(fd.data) : fd.data[y] # EmptyRow(fd.width)


-----------------------------------------------------------------------------
(* The front end loop when the player lets go of every key *)

\* update() calls in which the player may hold a key.
MaxPress == 3

\* update() calls of a game; a game the player has left ends before.
MaxIdle == 40

\* The keys the front end reports while the player plays.
PressKeys ==
    {{"MoveLeft"}, {"MoveRight"}, {"MoveDown"}, {"RotateLeft"}, {"RotateRight"},
     {"Hold"}, {"HardDrop"}}

\* One frame of the front end's loop, which runs while engine.running:
\* gather_input, then Engine::update.
UpdateWhileRunning(keys, n1, n2) ==
    /\ running /\ ~panic
    /\ calls < MaxIdle
    /\ \E e \in {update([Engine EXCEPT !.co = gather_input(co, keys)], n1, n2)} :
           Becomes(e)
    /\ calls' = calls + 1
    /\ UNCHANGED lib_vars

\* A frame in which the player holds a key.
UpdatePressed ==
    /\ calls < MaxPress
    /\ \E keys \in PressKeys :
          \E n1 \in Draws(it.need_piece), n2 \in Draws(hd = None /\ "Hold" \in keys) :
              UpdateWhileRunning(keys, n1, n2)

\* A frame in which no key is held.
UpdateIdle == \E n \in Draws(it.need_piece) : UpdateWhileRunning({}, n, n)

NextIdle == UpdatePressed \/ UpdateIdle

\* The loop of the front end makes another pass.
Iterate == running /\ ~panic /\ calls < MaxIdle /\ calls' = calls + 1

\* The loop of the front end does not stop while engine.running.
SpecIdle == Init /\ [][NextIdle]_vars /\ WF_calls(Iterate)

\* A piece is in play: the engine is in Move with a piece it has not frozen.
ActiveInMove == running /\ status = "Move" /\ ~it.need_piece /\ ~lg.froze /\ calls > 0

\* No action is active.
NoAction == \A a \in Actions : ~co.active[a]

\* C40: with gravity > 0, if from some tick on no action is active then every
\* piece that is in play in Move is eventually frozen into the field, or the
\* game reaches GameOver.
C40_EveryPieceLocks ==
    <>[]NoAction => (ActiveInMove ~> (lg.froze \/ status = "GameOver"))

\* After the player let go of every key a piece was frozen by the lock delay.
C40_Witness ==
    /\ calls > MaxPress + 1 /\ NoAction
    /\ lg.froze /\ ~lg.hard_drop /\ lg.rests_at > 0


\* C11: Engine::update() never fails, whatever the keys and the settings; in
\* particular is_pressed never divides by zero when ticks(arr) == 0.
C11_UpdateNeverFails == ~panic

-----------------------------------------------------------------------------
(* The controller driven directly: activate, deactivate, deactivate_all and *)
(* update in any order.                                                     *)

\* Number of Controller::update() or History::update() calls explored.
MaxUpdates == 4

\* The actions whose keys are pressed and released.
Keys == {"MoveLeft", "MoveRight"}

\* The actions active in controller c.
ActiveSet(c) == {a \in Actions : c.active[a]}

\* Everything but the controller and its observers.
ctl_rest == <<fd, bk, engine_vars, hs, bag, out>>

Activate(a) ==
    /\ co' = activate(co, a)
    /\ call' = [op |-> "activate"]
    /\ UNCHANGED <<acts, ctl_rest>>

Deactivate(a) ==
    /\ co' = deactivate(co, a)
    /\ call' = [op |-> "deactivate"]
    /\ UNCHANGED <<acts, ctl_rest>>

DeactivateAll ==
    /\ co' = deactivate_all(co)
    /\ call' = [op |-> "deactivate_all"]
    /\ UNCHANGED <<acts, ctl_rest>>

ControllerUpdate ==
    /\ Len(acts) < MaxUpdates
    /\ co' = Controller_update(co)
    /\ call' = [op |-> "update"]
    /\ acts' = Append(acts, ActiveSet(co))
    /\ UNCHANGED ctl_rest

\* A freshly constructed engine; its controller is Controller::new().
InitLib ==
    /\ Is(Engine_new(OptionsA))
    /\ calls = 0
    /\ LibInit

NextController ==
    \/ \E a \in Keys : Activate(a)
    \/ \E a \in Keys : Deactivate(a)
    \/ DeactivateAll
    \/ ControllerUpdate

SpecController == InitLib /\ [][NextController]_vars

\* The number of the latest consecutive update calls at which a was active.
Streak(a) ==
    CHOOSE k \in 0..Len(acts) :
        /\ \A i \in (Len(acts) - k + 1)..Len(acts) : a \in acts[i]
        /\ k = Len(acts) \/ a \notin acts[Len(acts) - k]

\* C12: immediately after every Controller::update(), for each action a,
\* time[a] is 0 exactly when a is inactive, and otherwise it is the number of
\* consecutive update() calls, this one included, at which a was active.
C12_TimeCountsActiveUpdates ==
    call.op = "update" =>
        \A a \in Actions :
            /\ co.time[a] = 0 <=> ~co.active[a]
            /\ co.time[a] = Streak(a)

\* C12 witness: MoveLeft was active, released over one update, and has now
\* been active over the last two updates.
C12_Witness ==
    /\ call.op = "update" /\ Len(acts) = 4
    /\ "MoveLeft" \in acts[1] /\ "MoveLeft" \notin acts[2]
    /\ co.time["MoveLeft"] = 2

-----------------------------------------------------------------------------
(* The history driven directly: History::update(&controller) between key    *)
(* presses and releases.                                                    *)

HistoryUpdate ==
    /\ Len(acts) < MaxUpdates
    /\ hs' = History_update(hs, co)
    /\ call' = [op |-> "history_update"]
    /\ acts' = Append(acts, ActiveSet(co))
    /\ UNCHANGED <<co, fd, bk, engine_vars, bag, out>>

NextHistory ==
    \/ \E a \in Keys : Activate(a)
    \/ \E a \in Keys : Deactivate(a)
    \/ DeactivateAll
    \/ HistoryUpdate

SpecHistory == InitLib /\ [][NextHistory]_vars

\* The number of events of the history for action a, pressed or released, at update call j.
EventsAt(j, a, pressed) ==
    Cardinality({i \in DOMAIN hs.history :
                    /\ hs.history[i].action = a
                    /\ hs.history[i].press = pressed
                    /\ hs.history[i].ticks = j - 1})

\* Action a was active at update call j (no call before the first: inactive).
ActiveAt(j, a) == j >= 1 /\ a \in acts[j]

\* C13: History::update records controller edges only: one press event for an
\* action that was inactive at the previous update call and is active now, one
\* release event for an action that was active and is inactive now, nothing for
\* an action whose state did not change.
C13_HistoryRecordsEdges ==
    \A j \in 1..Len(acts) : \A a \in Actions :
        /\ EventsAt(j, a, TRUE) = IF ActiveAt(j, a) /\ ~ActiveAt(j - 1, a) THEN 1 ELSE 0
        /\ EventsAt(j, a, FALSE) = IF ~ActiveAt(j, a) /\ ActiveAt(j - 1, a) THEN 1 ELSE 0

-----------------------------------------------------------------------------
(* Field::clear_lines called directly on small fields. *)

\* Width and height of the fields clear_lines is called on.
FieldW == 2
FieldH == 4

\* The fields of that size with every cell empty or filled.
Fields ==
    {[width |-> FieldW, height |-> FieldH, hidden |-> 0, spawn |-> <<0, 0>>, data |-> d] :
        d \in [1..FieldH -> [1..FieldW -> {None, "I"}]]}

InitField ==
    /\ \E f \in Fields : Is([Engine_new(OptionsA) EXCEPT !.fd = f])
    /\ calls = 0
    /\ LibInit

ClearLines ==
    /\ call.op = "none"
    /\ fd' = clear_lines(fd)
    /\ call' = [op |-> "clear_lines", ret |-> cleared(fd), before |-> fd.data]
    /\ UNCHANGED <<co, bk, engine_vars, hs, bag, acts, out>>

NextField == ClearLines

SpecField == InitField /\ [][NextField]_vars

\* Every cell of the row is filled.
FullRow(row) == \A x \in DOMAIN row : row[x] # None

\* Every cell of the row is empty.
EmptyRowIs(row) == \A x \in DOMAIN row : row[x] = None

\* C14: clear_lines() returns the number c of completely filled rows before the
\* call; afterwards the field still has height rows, the top c rows are empty,
\* the rows below are the rows that were not full, in their order, and no
\* completely filled row remains.
C14_ClearLines ==
    call.op = "clear_lines" =>
        /\ call.ret = Cardinality({y \in DOMAIN call.before : FullRow(call.before[y])})
        /\ Len(fd.data) = fd.height
        /\ \A y \in 1..call.ret : EmptyRowIs(fd.data[y])
        /\ SubSeq(fd.data, call.ret + 1, fd.height)
               = SelectSeq(call.before, LAMBDA row : ~FullRow(row))
        /\ \A y \in DOMAIN fd.data : ~FullRow(fd.data[y])

\* C14 witness: two full rows with a partly filled row between them were cleared.
C14_Witness ==
    /\ call.op = "clear_lines" /\ call.ret = 2
    /\ FullRow(call.before[2]) /\ FullRow(call.before[4])
    /\ ~FullRow(call.before[3]) /\ ~EmptyRowIs(call.before[3])

-----------------------------------------------------------------------------
(* Blocks driven directly: shift, shift_extend, rotate, rotate_with_offset   *)
(* and rotate_with_wallkick on a piece placed on a field.                    *)

\* A field of the given size whose filled cells are the given ones.
FieldWith(w, h, spawn, filled) ==
    [width |-> w, height |-> h, hidden |-> 0, spawn |-> spawn,
     data |-> [y \in 1..h |-> [x \in 1..w |-> IF <<x - 1, y - 1>> \in filled
                                               THEN "I" ELSE None]]]

\* An empty 6x6 field, and the same with a few cells filled.
FieldEmpty == FieldWith(6, 6, <<1, 0>>, {})
FieldSome == FieldWith(6, 6, <<1, 0>>, {<<0, 3>>, <<5, 2>>, <<0, 5>>, <<1, 5>>, <<4, 5>>})

\* The field and the piece of the wallkick2 test.
Scenario5Field ==
    FieldWith(10, 8, <<4, 0>>,
        {<<4,1>>, <<5,1>>,
         <<5,2>>, <<6,2>>, <<7,2>>,
         <<6,3>>, <<7,3>>, <<8,3>>, <<9,3>>,
         <<1,4>>, <<2,4>>, <<3,4>>, <<7,4>>, <<8,4>>, <<9,4>>,
         <<0,5>>, <<1,5>>, <<6,5>>, <<7,5>>, <<8,5>>, <<9,5>>,
         <<0,6>>, <<1,6>>, <<2,6>>, <<3,6>>, <<6,6>>, <<7,6>>, <<8,6>>, <<9,6>>,
         <<0,7>>, <<1,7>>, <<2,7>>, <<3,7>>, <<4,7>>, <<6,7>>, <<7,7>>, <<8,7>>, <<9,7>>})

Scenario5Block == [id |-> "J", x |-> 3, y |-> 2, r |-> R0]

\* The states the calls start from: every piece at the spawn of the 6x6
\* fields, and the wallkick2 test.
BlockStarts ==
    {[f |-> f, b |-> on_field(id, f)] : f \in {FieldEmpty, FieldSome},
                                         id \in {variants[i] : i \in DOMAIN variants}}
        \cup {[f |-> Scenario5Field, b |-> Scenario5Block]}

InitBlock ==
    /\ \E s \in BlockStarts : Is([Engine_new(OptionsA) EXCEPT !.fd = s.f, !.bk = s.b])
    /\ calls = 0
    /\ LibInit

\* Everything but the block and the observer of the call.
block_rest == <<co, fd, engine_vars, hs, bag, acts, out>>

\* The block becomes s.b and the call returns s.ok; record names the call.
Returns(s, record) ==
    /\ bk' = s.b
    /\ call' = [record EXCEPT !.ret = s.ok]

Shift(direction) ==
    /\ Returns(shift(bk, fd, direction),
               [op |-> "shift", direction |-> direction, ret |-> FALSE, before |-> bk])
    /\ UNCHANGED block_rest

ShiftExtend(direction) ==
    /\ bk' = shift_extend(bk, fd, direction)
    /\ call' = [op |-> "shift_extend", direction |-> direction, before |-> bk]
    /\ UNCHANGED block_rest

Rotate(rotation) ==
    /\ Returns(rotate(bk, fd, rotation),
               [op |-> "rotate", rotation |-> rotation, x |-> 0, y |-> 0,
                ret |-> FALSE, before |-> bk])
    /\ UNCHANGED block_rest

RotateWithOffset(rotation, x, y) ==
    /\ Returns(rotate_with_offset(bk, fd, rotation, x, y),
               [op |-> "rotate_with_offset", rotation |-> rotation, x |-> x, y |-> y,
                ret |-> FALSE, before |-> bk])
    /\ UNCHANGED block_rest

RotateWithWallkick(rotation) ==
    /\ Returns(rotate_with_wallkick(bk, fd, rotation),
               [op |-> "rotate_with_wallkick", rotation |-> rotation,
                ret |-> FALSE, before |-> bk])
    /\ UNCHANGED block_rest

\* The offsets rotate_with_offset is called with.
Offsets == {<<1, 0>>, <<-1, 0>>, <<0, 1>>}

NextBlock ==
    \/ \E direction \in {"Left", "Right", "Down"} : Shift(direction)
    \/ \E direction \in {"Left", "Right", "Down"} : ShiftExtend(direction)
    \/ \E rotation \in {R0, R90, R180, R270} : Rotate(rotation)
    \/ \E rotation \in {R0, R90, R180, R270} : \E o \in Offsets :
           RotateWithOffset(rotation, o[1], o[2])
    \/ \E rotation \in {R90, R270} : RotateWithWallkick(rotation)

SpecBlock == InitBlock /\ [][NextBlock]_vars

\* A cell of the block lies outside the field or on a filled cell.
OutOrFilled(b, f) ==
    \E c \in Cells(b) : ~InField(f, c) \/ get(f, c[1], c[2]) # None

\* The block one cell further in the direction.
Moved(b, direction) ==
    [b EXCEPT !.x = @ + DirVec(direction)[1], !.y = @ + DirVec(direction)[2]]

\* C15: a block collides exactly when one of its four cells lies outside
\* [0,width) x [0,height) or on a non-empty cell; hence shift(dir) succeeds
\* exactly when all four cells of the moved block are in bounds and empty.
C15_ShiftIffCellsFree ==
    call.op = "shift" =>
        (call.ret <=> ~OutOrFilled(Moved(call.before, call.direction), fd))

\* C16: a shift, rotate or rotate_with_offset that returns false leaves x, y,
\* rotation and cell data of the block as they were, and none of them modifies
\* the field.
C16_FailedMoveChangesNothing ==
    [][call'.op \in {"shift", "rotate", "rotate_with_offset"} =>
          /\ fd' = fd
          /\ ~call'.ret => (bk' = bk /\ data(bk'.id, bk'.r) = data(bk.id, bk.r))]_vars

\* C16 witness: a rotation by R90 with an offset collided and was refused.
C16_Witness ==
    /\ call.op = "rotate_with_offset" /\ call.rotation = R90 /\ ~call.ret
    /\ bk = call.before

\* The rotation state a successful rotate(target) leads to from r.
Turned(r, target) ==
    CASE target = R0   -> r
      [] target = R90  -> (r + 1) % 4
      [] target = R180 -> (r + 2) % 4
      [] target = R270 -> (r + 3) % 4

\* C17: a successful rotate(target) takes the target relative to the current
\* rotation: R0 leaves it, R90 is one step clockwise, R180 two steps, R270 one
\* step anticlockwise; the position changes by the given offset only.
C17_RotateIsRelative ==
    [][(call'.op \in {"rotate", "rotate_with_offset"} /\ call'.ret) =>
          /\ bk'.r = Turned(bk.r, call'.rotation)
          /\ bk'.x = bk.x + call'.x
          /\ bk'.y = bk.y + call'.y
          /\ bk'.id = bk.id]_vars

\* C17 witness: an S piece at R270 was rotated by R270 and is now at R180.
C17_Witness ==
    /\ call.op = "rotate" /\ call.ret /\ call.rotation = R270
    /\ call.before.id = "S" /\ call.before.r = R270 /\ bk.r = R180

\* The block b turned by the rotation and moved by the i-th offset of its kick list.
Kicked(b, rotation, i) ==
    [b EXCEPT !.r = Turned(b.r, rotation),
              !.x = @ + SRS_test(b, rotation)[i][1],
              !.y = @ + SRS_test(b, rotation)[i][2]]

\* The entries of the kick list of b at which the turned, offset block does not collide.
Fitting(b, f, rotation) ==
    {i \in DOMAIN SRS_test(b, rotation) : ~collision(Kicked(b, rotation, i), f)}

C19_Scenario5Kick ==
    (/\ call.op = "rotate_with_wallkick" /\ call.rotation = R270
     /\ fd = Scenario5Field /\ call.before = Scenario5Block
     /\ Cells(call.before) = {<<3,2>>, <<3,3>>, <<4,3>>, <<5,3>>})
        => Cells(bk) = {<<5,4>>, <<5,5>>, <<4,6>>, <<5,6>>}

-----------------------------------------------------------------------------
(* The bag randomizer on its own: next and preview in any order. *)

\* The number of next calls followed.
MaxNext == 15

\* The lookahead the randomizer is constructed with; preview asserts that
\* amount is below the capacity of the buffer.
Lookahead == 3

\* Outcomes of a shuffle, as permutations of the seven indices.
Shuffles ==
    { <<1, 2, 3, 4, 5, 6, 7>>,
      <<7, 6, 5, 4, 3, 2, 1>>,
      <<2, 1, 3, 4, 5, 6, 7>>,
      <<3, 7, 1, 5, 2, 4, 6>> }

InitBag ==
    /\ Is(Engine_new(OptionsA))
    /\ calls = 0
    /\ hs = History_new
    /\ \E p \in Shuffles : bag = BagRandomizer_new(shuffle(variants, p))
    /\ call = NoCall
    /\ acts = <<>>
    /\ out = <<>>

\* Everything but the randomizer and its observers.
bag_rest == <<co, fd, bk, engine_vars, hs, acts>>

\* randomizer.next(); out collects the blocks returned.
RandomizerNext ==
    /\ Len(out) < MaxNext
    /\ \E p \in Shuffles :
          /\ bag' = next(bag, p).b
          /\ out' = Append(out, next(bag, p).id)
          /\ call' = [op |-> "next", ret |-> next(bag, p).id]
    /\ UNCHANGED bag_rest

\* randomizer.preview(amount), for the amounts its assertion admits.
Preview(amount) ==
    /\ \E p \in Shuffles :
          /\ bag' = preview(bag, amount, p)
          /\ call' = [op |-> "preview", amount |-> amount,
                      ret |-> take(preview(bag, amount, p).lookahead, amount)]
    /\ UNCHANGED <<out, bag_rest>>

NextBag ==
    \/ RandomizerNext
    \/ \E amount \in 0..(Lookahead - 1) : Preview(amount)

SpecBag == InitBag /\ [][NextBag]_vars

\* The blocks number 7k+1 to 7k+7 that next returned.
Group(k) == { out[7 * k + i] : i \in 1..7 }

\* C20: for every k, the blocks number 7k+1 to 7k+7 returned by next since
\* construction are the seven Ids I, T, L, J, S, Z, O, each exactly once and
\* never Id::None, whatever the shuffles and the preview calls in between.
C20_EveryGroupIsABag ==
    \A k \in 0..(MaxNext \div 7) :
        7 * k + 7 <= Len(out) =>
            /\ Group(k) = { variants[i] : i \in 1..7 }
            /\ None \notin Group(k)

\* Two groups were returned in different orders, the last block out of a
\* lookahead that preview had filled and that still holds a block.
C20_Witness ==
    /\ Len(out) = 14
    /\ SubSeq(out, 1, 7) # SubSeq(out, 8, 14)
    /\ call.op = "next"
    /\ bag.lookahead # <<>>

\* The seven Ids.
AllIds == { variants[i] : i \in 1..7 }

\* The blocks number s to s+n-1 that next returned.
Window(s, n) == { out[s + i] : i \in 0..(n - 1) }

\* The number of the bag the block number s was drawn from.
BagOf(s) == (s - 1) \div 7

\* C21 as stated: any 7 consecutive blocks returned by the bag randomizer,
\* wherever the window starts, are the seven Ids, each once.
C21_AnySevenInARow ==
    \A s \in 1..MaxNext : s + 6 <= Len(out) => Window(s, 7) = AllIds

\* C21 amended: 7 consecutive blocks that start at a bag boundary are the seven
\* Ids, each once; elsewhere a window of 7 may repeat an Id, but any 13
\* consecutive blocks contain all seven Ids.
C21_SevenInABagThirteenAnywhere ==
    \A s \in 1..MaxNext :
        /\ (s + 6 <= Len(out) /\ BagOf(s) = BagOf(s + 6)) => Window(s, 7) = AllIds
        /\ s + 12 <= Len(out) => Window(s, 13) = AllIds

\* 13 blocks were returned and a window of 7 across the first bag boundary
\* misses an Id.
C21_Witness ==
    /\ Len(out) >= 13
    /\ \E s \in 2..7 : Window(s, 7) # AllIds

\* C22 as stated: no three consecutive blocks returned by the bag randomizer
\* contain the same Id twice.
C22_NoRepeatInThree ==
    \A s \in 1..MaxNext :
        s + 2 <= Len(out) => Cardinality(Window(s, 3)) = 3

\* C22 amended: three consecutive blocks drawn from one bag never contain the
\* same Id twice; when two of three consecutive blocks are the same Id, they
\* were drawn from different bags.
C22_RepeatOnlyAcrossBags ==
    \A s \in 1..MaxNext : \A t \in (s + 1)..(s + 2) :
        (t <= Len(out) /\ out[s] = out[t]) => BagOf(s) # BagOf(t)

\* The last block of the first bag was returned again as the first of the
\* second.
C22_Witness == Len(out) >= 8 /\ out[7] = out[8]

\* C23: preview(n), for any n the lookahead allows, returns exactly n blocks on
\* every call, the first call on a freshly constructed randomizer included.
C23_PreviewReturnsAmount ==
    call.op = "preview" => Len(call.ret) = call.amount

\* The blocks drawn from the bag so far, in the order they were drawn: those
\* next returned, then those waiting in the lookahead.
Generated == out \o bag.lookahead

\* s is the sequence t or the beginning of it.
IsPrefix(s, t) == Len(s) <= Len(t) /\ SubSeq(t, 1, Len(s)) = s

\* C24: however preview and next calls are interleaved, a preview returns the
\* oldest blocks drawn and not yet returned, in the order the following next
\* calls return them: preview returns no block to the caller of next, changes
\* no order and skips nothing, and next returns the oldest block not yet
\* returned.
C24_PreviewShowsWhatNextReturns ==
    [][ /\ IsPrefix(Generated, Generated')
        /\ call'.op = "preview" =>
              /\ out' = out
              /\ IsPrefix(call'.ret, bag'.lookahead)
        /\ call'.op = "next" =>
              /\ out' = Append(out, call'.ret)
              /\ IsPrefix(out', Generated')
              /\ bag.lookahead # <<>> => call'.ret = Head(bag.lookahead) ]_vars

\* next returned a block that two previews had shown, and one more is waiting.
C24_Witness ==
    /\ call.op = "next"
    /\ Len(out) >= 8
    /\ Len(bag.lookahead) = 1
    /\ bag.head = 2

-----------------------------------------------------------------------------
(* Field::occupies on its own, at coordinates in and just out of range. *)

\* field.occupies((x, y)); failed tells that the call panicked.
Occupies(x, y) ==
    /\ call' = IF occupies_fails(fd, x, y)
               THEN [op |-> "occupies", at |-> <<x, y>>, failed |-> TRUE]
               ELSE [op |-> "occupies", at |-> <<x, y>>, failed |-> FALSE,
                     ret |-> occupies(fd, x, y)]
    /\ UNCHANGED <<fd, co, bk, engine_vars, hs, bag, acts, out>>

NextOccupies == \E x \in 0..FieldW, y \in 0..FieldH : Occupies(x, y)

SpecOccupies == InitField /\ [][NextOccupies]_vars

\* C25: occupies((x, y)) returns false, without failing, for every coordinate
\* outside [0,width) x [0,height), and inside returns true exactly when the
\* cell is not Id::None.
C25_OccupiesFalseOutside ==
    call.op = "occupies" =>
        /\ ~call.failed
        /\ call.ret = (InField(fd, call.at) /\ get(fd, call.at[1], call.at[2]) # None)

-----------------------------------------------------------------------------
(* schema.rs: a schema is [width, height, data], data[y + 1][x + 1] one of    *)
(* the characters " ", "#", "@" (and "X" where from_state found a collision).  *)

\* The widest and the highest schema drawn.
SchemaW == 5
SchemaH == 4

\* The schema of the given size with # at the cells hashes and @ at the cells ats.
SchemaOf(w, h, hashes, ats) ==
    [width |-> w, height |-> h,
     data |-> [y \in 1..h |-> [x \in 1..w |->
                 IF <<x - 1, y - 1>> \in ats THEN "@"
                 ELSE IF <<x - 1, y - 1>> \in hashes THEN "#" ELSE " "]]]

\* The cells of the schema s that hold the character ch.
CellsOf(s, ch) ==
    {c \in (0..(s.width - 1)) \X (0..(s.height - 1)) : s.data[c[2] + 1][c[1] + 1] = ch}

\* RotationSystem::minp: the offset with the least y and, in that row, the least x.
minp(id, r) ==
    CHOOSE d \in data(id, r) :
        \A o \in data(id, r) : d[2] < o[2] \/ (d[2] = o[2] /\ d[1] <= o[1])

\* Schema::is_block on usize coordinates.
is_block(s, x, y) == x < s.width /\ y < s.height /\ s.data[y + 1][x + 1] = "@"

\* match_block tries the pairs (Id, Rotation) in the order of iproduct!: number
\* k is the Id number k / 4 with the rotation k % 4.
PairId(k) == variants[(k \div 4) + 1]
PairRo(k) == k % 4

\* match_block: the pair number k fits the @ cells seen from the cell (x, y).
fits(s, x, y, k) ==
    /\ ~(x < minp(PairId(k), PairRo(k))[1] \/ y < minp(PairId(k), PairRo(k))[2])
    /\ \A d \in data(PairId(k), PairRo(k)) :
          is_block(s, x - minp(PairId(k), PairRo(k))[1] + d[1],
                      y - minp(PairId(k), PairRo(k))[2] + d[2])

\* match_block: the block built for the pair number k; x and y are the schema
\* coordinates of the cell that started the match.
matched(f, x, y, k) ==
    [id |-> PairId(k), r |-> PairRo(k),
     x |-> x - minp(PairId(k), PairRo(k))[1],
     y |-> f.height - (y - minp(PairId(k), PairRo(k))[2]) - 1]

\* match_block: the schema with the @ cells of the pair number k erased.
erased(s, x, y, k) ==
    [s EXCEPT !.data = [v \in 1..s.height |-> [u \in 1..s.width |->
        IF <<u - 1 - (x - minp(PairId(k), PairRo(k))[1]),
             v - 1 - (y - minp(PairId(k), PairRo(k))[2])>> \in data(PairId(k), PairRo(k))
        THEN " " ELSE @[v][u]]]]

\* Schema::match_block at the cell (x, y) in the conversion state cv; it panics
\* when no pair fits or when the block built collides with the field.
match_block(cv, x, y) ==
    IF \A k \in 0..27 : ~fits(cv.s, x, y, k)
    THEN [cv EXCEPT !.failed = TRUE]
    ELSE [cv EXCEPT
            !.b = matched(cv.f, x, y, SetMin({k \in 0..27 : fits(cv.s, x, y, k)})),
            !.s = erased(@, x, y, SetMin({k \in 0..27 : fits(cv.s, x, y, k)})),
            !.failed = collision(
                matched(cv.f, x, y, SetMin({k \in 0..27 : fits(cv.s, x, y, k)})), cv.f)]

\* to_state: the body of the loop at the cell (x, y).
to_state_cell(cv, x, y) ==
    IF cv.failed THEN cv
    ELSE CASE cv.s.data[y + 1][x + 1] = "@" -> match_block(cv, x, y)
           [] cv.s.data[y + 1][x + 1] = "#" -> [cv EXCEPT !.f.data[y + 1][x + 1] = "I"]
           [] cv.s.data[y + 1][x + 1] = " " -> cv
           [] OTHER -> [cv EXCEPT !.failed = TRUE]

\* to_state: the loop over iproduct!(0..height, 0..width) from the cell number i.
RECURSIVE to_state_from(_, _)
to_state_from(cv, i) ==
    IF i = cv.s.width * cv.s.height THEN cv
    ELSE to_state_from(to_state_cell(cv, i % cv.s.width, i \div cv.s.width), i + 1)

\* to_state: a block is required in a schema.
to_state_end(cv) == [failed |-> cv.failed \/ cv.b.id = None, f |-> cv.f, b |-> cv.b]

\* Schema::to_state; failed tells that the call panicked.
to_state(s) ==
    to_state_end(to_state_from(
        [s |-> s, failed |-> FALSE,
         f |-> Field_new([width |-> s.width, height |-> s.height,
                          hidden |-> 3, spawn |-> <<4, 0>>]),
         b |-> [id |-> None, x |-> 0, y |-> 0, r |-> R0]], 0))

\* Schema::from_state, which panics when a cell is of the field and of the block.
from_state(f, b) ==
    [width |-> f.width, height |-> f.height,
     data |-> [y \in 1..f.height |-> [x \in 1..f.width |->
        CASE  occupies(f, x - 1, y - 1) /\ <<x - 1, y - 1>> \in Cells(b) -> "X"
          []  occupies(f, x - 1, y - 1) /\ <<x - 1, y - 1>> \notin Cells(b) -> "#"
          [] ~occupies(f, x - 1, y - 1) /\ <<x - 1, y - 1>> \in Cells(b) -> "@"
          [] OTHER -> " "]]]

\* Schema::truncate: retain the rows that are not empty.
truncate(s) ==
    [s EXCEPT !.data = SelectSeq(@, LAMBDA row : row # [x \in 1..s.width |-> " "]),
              !.height = Len(SelectSeq(s.data, LAMBDA row : row # [x \in 1..s.width |-> " "]))]

\* PartialEq for Schema
eq(s, t) == IF s.width = t.width THEN truncate(s).data = truncate(t).data ELSE FALSE

-----------------------------------------------------------------------------
(* Schemas parsed by from_string, then converted and compared.               *)

\* The @ cells of a tetromino that lies within a schema of SchemaW columns and h rows.
Tetrominoes(h) ==
    {t \in {{<<d[1] + o[1], d[2] + o[2]>> : d \in data(variants[o[3]], o[4])} :
              o \in (-2..SchemaW) \X (-2..h) \X (1..7) \X (0..3)} :
        t \subseteq (0..(SchemaW - 1)) \X (0..(h - 1))}

\* The # cells drawn: none, a corner, and a small heap at the bottom left.
Heaps(h) == { {}, {<<0, h - 1>>}, {<<0, h - 1>>, <<1, h - 1>>, <<1, h - 2>>} }

\* Well-formed schemas: one tetromino of @ cells beside the # cells, in a
\* schema of SchemaH rows or of one row less.
WithBlock ==
    UNION {{SchemaOf(SchemaW, h, heap \ t, t) : heap \in Heaps(h), t \in Tetrominoes(h)} :
              h \in (SchemaH - 1)..SchemaH}

\* Schemas without a block, of one or two columns and up to three rows.
Rows(w) == [1..w -> {" ", "#"}]
Plain ==
    UNION {{[width |-> w, height |-> h, data |-> d] : d \in [1..h -> Rows(w)]} :
              w \in 1..2, h \in 1..3}

InitSchema ==
    /\ Is(Engine_new(OptionsA))
    /\ calls = 0
    /\ hs = History_new
    /\ bag = BagRandomizer_new(variants)
    /\ \E s \in WithBlock \cup Plain : call = [op |-> "from_string", schema |-> s]
    /\ acts = <<>>
    /\ out = <<>>

schema_rest == <<co, engine_vars, hs, bag, acts, out>>

\* schema.to_state(rs) of a schema with a block; the field and the block are
\* kept when it returns.
ToState ==
    /\ call.op = "from_string"
    /\ call.schema \in WithBlock
    /\ call' = [op |-> "to_state", schema |-> call.schema,
                failed |-> to_state(call.schema).failed]
    /\ fd' = IF to_state(call.schema).failed THEN fd ELSE to_state(call.schema).f
    /\ bk' = IF to_state(call.schema).failed THEN bk ELSE to_state(call.schema).b
    /\ UNCHANGED schema_rest

\* Schema::from_state(&field, &block) of the state to_state returned.
FromState ==
    /\ call.op = "to_state"
    /\ ~call.failed
    /\ call' = [op |-> "from_state", schema |-> call.schema,
                failed |-> CellsOf(from_state(fd, bk), "X") # {},
                ret |-> from_state(fd, bk)]
    /\ UNCHANGED <<fd, bk, schema_rest>>

\* schema == other
Eq(other) ==
    /\ call.op = "from_string"
    /\ call.schema \in Plain
    /\ call' = [op |-> "eq", schema |-> call.schema, other |-> other,
                ret |-> eq(call.schema, other)]
    /\ UNCHANGED <<fd, bk, schema_rest>>

NextSchema ==
    \/ ToState
    \/ FromState
    \/ \E other \in Plain : Eq(other)

SpecSchema == InitSchema /\ [][NextSchema]_vars

\* The filled cells of the field f.
Filled(f) == {c \in (0..(f.width - 1)) \X (0..(f.height - 1)) : get(f, c[1], c[2]) # None}

\* C26: for every well-formed schema (one tetromino of @ cells, at any row, not
\* on # cells), to_state yields a field whose filled cells are the # positions
\* and a block whose four cells are the @ positions, and from_state of that
\* state equals the schema.
C26_ToStateKeepsCells ==
    /\ call.op = "to_state" =>
          /\ ~call.failed
          /\ Filled(fd) = CellsOf(call.schema, "#")
          /\ Cells(bk) = CellsOf(call.schema, "@")
    /\ call.op = "from_state" =>
          /\ ~call.failed
          /\ eq(call.ret, call.schema)

\* The rows of the schema s without its leading empty rows.
Stripped(s) ==
    SubSeq(s.data,
           SetMin({y \in 1..(s.height + 1) :
                     y = s.height + 1 \/ s.data[y] # [x \in 1..s.width |-> " "]}),
           s.height)

\* C27: two schemas are equal exactly when they have the same width and the
\* same rows after the leading empty rows of each are removed; an empty row
\* between rows that are not empty makes two schemas differ.
C27_EqualUpToLeadingRows ==
    call.op = "eq" =>
        call.ret = (/\ call.schema.width = call.other.width
                    /\ Stripped(call.schema) = Stripped(call.other))

-----------------------------------------------------------------------------
(* randomizer/gameboy.rs *)

MaxRolls == 4

\* The values rng.gen_range(0, 6 * variants.len() - 3) returns.
Rolls == 0..(6 * Len(variants) - 3 - 1)

\* GameboyRandomizer::new; p is the value of rng.gen_range(0, variants.len()).
GameboyRandomizer_new(p) == [lookahead |-> <<>>, prev |-> p]

\* next_block: the amount the roll of the rng adds to prev.
advance(roll) == ((roll \div 5) + 1) % Len(variants)

\* GameboyRandomizer::next_block with the roll of the rng: the randomizer it
\* leaves and the block variants[prev], None where the index is out of bounds
\* and the indexing panics.
GameboyRandomizer_next_block(g, roll) ==
    [b  |-> [g EXCEPT !.prev = @ + advance(roll)],
     id |-> IF g.prev + advance(roll) < Len(variants)
            THEN variants[g.prev + advance(roll) + 1]
            ELSE None]

\* Randomizer::preview as gen_rand! generates it for GameboyRandomizer.
GameboyRandomizer_preview(g, amount, roll) ==
    IF Len(g.lookahead) < amount
    THEN [b  |-> push(GameboyRandomizer_next_block(g, roll)),
          id |-> GameboyRandomizer_next_block(g, roll).id]
    ELSE [b |-> g, id |-> Head(variants)]

\* Randomizer::next as gen_rand! generates it for GameboyRandomizer.
GameboyRandomizer_next(g, roll) ==
    IF g.lookahead = <<>>
    THEN GameboyRandomizer_next_block(g, roll)
    ELSE [id |-> Head(g.lookahead), b |-> [g EXCEPT !.lookahead = Tail(@)]]

InitGameboy ==
    /\ Is(Engine_new(OptionsA))
    /\ calls = 0
    /\ hs = History_new
    /\ \E p \in 0..(Len(variants) - 1) : bag = GameboyRandomizer_new(p)
    /\ call = NoCall
    /\ acts = <<>>
    /\ out = <<>>

\* What a call leaves: the randomizer, the blocks next returned, and whether
\* the call panicked on the index.
GameboyLeaves(g, returned) ==
    /\ bag' = (IF g.id = None THEN [g.b EXCEPT !.lookahead = bag.lookahead] ELSE g.b)
    /\ panic' = (g.id = None)
    /\ out' = (IF g.id = None THEN out ELSE out \o returned)
    /\ calls' = calls + 1

gameboy_rest == <<co, rd, fd, bk, hd, op, st, running, mspt, tick_count, it, status,
                  last_status, locks, holds, rests, since, lg, hs, acts>>

\* randomizer.next()
GameboyNext ==
    /\ ~panic /\ calls < MaxRolls
    /\ \E roll \in Rolls :
          /\ GameboyLeaves(GameboyRandomizer_next(bag, roll),
                           <<GameboyRandomizer_next(bag, roll).id>>)
          /\ call' = [op |-> "next", ret |-> GameboyRandomizer_next(bag, roll).id]
    /\ UNCHANGED gameboy_rest

\* randomizer.preview(amount), for the amounts its assertion admits.
GameboyPreview(amount) ==
    /\ ~panic /\ calls < MaxRolls
    /\ \E roll \in Rolls :
          /\ GameboyLeaves(GameboyRandomizer_preview(bag, amount, roll), <<>>)
          /\ call' = [op |-> "preview", amount |-> amount]
    /\ UNCHANGED gameboy_rest

NextGameboy ==
    \/ GameboyNext
    \/ \E amount \in 0..(Lookahead - 1) : GameboyPreview(amount)

SpecGameboy == InitGameboy /\ [][NextGameboy]_vars

\* C36: after any number of next() and preview() calls on the Gameboy
\* randomizer the stored prev index is in 0..6, no call has indexed outside the
\* seven variants, and every generated piece is one of the seven Ids.
C36_PrevIndexInRange ==
    /\ bag.prev \in 0..(Len(variants) - 1)
    /\ ~panic
    /\ \A i \in 1..Len(out) : \E k \in 1..Len(variants) : out[i] = variants[k]
    /\ \A i \in 1..Len(bag.lookahead) :
          \E k \in 1..Len(variants) : bag.lookahead[i] = variants[k]

====
